---- MODULE Spec2Model ----
(***************************************************************************)
(* Model of the transaction-preparation backend in src/server.js: the      *)
(* /send handler (lines 417-535) that builds an unsigned transfer          *)
(* transaction and the /submit handler (lines 538-562) that relays a       *)
(* signed one.  The file holds the program twice; lines 343-567 are the    *)
(* copy without merge markers and the one modelled.                        *)
(*                                                                         *)
(* Each handler is an async function.  An action of the model is an        *)
(* awaited call on the ledger collaborator together with the code that     *)
(* runs when it returns or throws; the iterations of the recipient loop    *)
(* and the final serialization are steps of their own.                     *)
(***************************************************************************)
EXTENDS Integers, Sequences, FiniteSets, TLC

\* ------------------------------------------------------------------ bounds
\* Longest recipients array a request body carries.
MaxRecipients == 2

\* ------------------------------------------------------- program constants
\* LAMPORTS_PER_SOL of @solana/web3.js, imported on line 344.
LAMPORTS_PER_SOL == 1000000000

\* ------------------------------------------------------------ environment
\* Requests being handled.
Reqs == {1, 2}

\* Strings that decode as a public key: the sender S, the recipients A and B,
\* the token mint T, and U, an address that is no mint.
ValidKeys == {"S", "A", "B", "T", "U"}

\* Values of body.publicKey: absent, malformed, valid.
SenderInputs == {"", "bad", "S"}

\* Values of body.token.
TokenInputs == {"SOL", "T", "U", "bad"}

\* Values of recipient.address.
RecipientInputs == {"A", "B", "bad"}

\* recipient.amount: a JSON number, given in thousandths, or absent
\* (undefined).  The amounts of the model are -1, 0, 1, 1.001 and undefined.
Num(milli) == [def |-> TRUE, milli |-> milli]
Undefined == [def |-> FALSE, milli |-> 0]
AmountInputs == {Num(-1000), Num(0), Num(1000), Num(1001), Undefined}

\* Owners whose holding account for a mint may exist on the ledger.
Owners == {"S", "A", "B"}

\* The decimals the ledger records for each mint account.
MintDecimals == [m \in {"T"} |-> 6]

RECURSIVE SeqsUpTo(_, _)
SeqsUpTo(S, n) ==
    IF n = 0 THEN {<<>>}
    ELSE LET shorter == SeqsUpTo(S, n - 1)
         IN  shorter \cup {Append(s, x) : s \in {t \in shorter : Len(t) = n - 1}, x \in S}

RecipientEntries == [address : RecipientInputs, amount : AmountInputs]

\* req.body of a /send request.
SendBodies ==
    [route : {"send"}, publicKey : SenderInputs, token : TokenInputs,
     hasRecipients : {TRUE}, recipients : SeqsUpTo(RecipientEntries, MaxRecipients),
     signedTransaction : {""}]
    \cup
    [route : {"send"}, publicKey : SenderInputs, token : TokenInputs,
     hasRecipients : {FALSE}, recipients : {<<>>}, signedTransaction : {""}]

\* req.body of a /submit request: the field absent, undecodable, or a signed
\* transaction.
SubmitBodies ==
    [route : {"submit"}, publicKey : {""}, token : {""}, hasRecipients : {FALSE},
     recipients : {<<>>}, signedTransaction : {"", "garbage", "signedTx"}]

NoBody ==
    [route |-> "none", publicKey |-> "", token |-> "", hasRecipients |-> FALSE,
     recipients |-> <<>>, signedTransaction |-> ""]

\* ------------------------------------------------------------------ values
\* new PublicKey(key) returns (TRUE) or throws (FALSE).
PublicKeyOk(key) == key \in ValidKeys

\* An address: a wallet (mint "-") or the holding account of (owner, mint).
Wallet(owner) == [owner |-> owner, mint |-> "-"]
NoAddress == [owner |-> "-", mint |-> "-"]

\* getAssociatedTokenAddress(mint, owner): the derived holding account.
getAssociatedTokenAddress(mint, owner) == [owner |-> owner, mint |-> mint]

\* A JS number (an IEEE-754 double): NaN, the integer val (err = 0), or the
\* double next to the integer val, just below it (err = -1) or above (err = 1).
NaN == [nan |-> TRUE, val |-> 0, err |-> 0]
Value(n) == [nan |-> FALSE, val |-> n, err |-> 0]

\* The rounding error of the double product (milli / 1000) * unit, for the
\* amounts of the model: 1.001 * 1e9 is 1000999999.9999999 and 1.001 * 1e6 is
\* 1000999.9999999999; the products of -1, 0 and 1 are exact.
ProductError(milli, unit) == IF milli = 1001 /\ unit \in {1000000, 1000000000} THEN -1 ELSE 0

\* amount * unit in JS arithmetic, for a unit that is a multiple of 1000:
\* undefined * unit is NaN; no rounding is applied to the product.
Times(amount, unit) ==
    IF amount.def
    THEN [nan |-> FALSE, val |-> amount.milli * (unit \div 1000),
          err |-> ProductError(amount.milli, unit)]
    ELSE NaN

RECURSIVE Pow10(_)
Pow10(d) == IF d = 0 THEN 1 ELSE 10 * Pow10(d - 1)

\* SystemProgram.transfer({fromPubkey, toPubkey, lamports}).
SystemTransfer(from, to, lamports) ==
    [type |-> "transfer", from |-> Wallet(from), to |-> Wallet(to),
     account |-> NoAddress, amount |-> lamports]

\* createAssociatedTokenAccountInstruction(payer, associatedToken, owner, mint).
CreateAccount(payer, ata, owner) ==
    [type |-> "create", from |-> Wallet(payer), to |-> Wallet(owner),
     account |-> ata, amount |-> Value(0)]

\* createTransferInstruction(source, destination, owner, amount).
TokenTransfer(source, destination, owner, amount) ==
    [type |-> "tokenTransfer", from |-> source, to |-> destination,
     account |-> Wallet(owner), amount |-> amount]

\* Whether building an instruction with this amount may throw, may succeed:
\* the instruction builders of the libraries accept every non-negative
\* integer; what they do with a negative number, a number that is no integer
\* or NaN depends on the library version (encode it, or throw a RangeError).
BuildOutcomes(amount) ==
    IF amount.nan \/ amount.val < 0 \/ amount.err # 0 THEN {"ok", "throw"} ELSE {"ok"}

\* new Transaction().
NewTransaction == [instructions |-> <<>>, feePayer |-> "", recentBlockhash |-> ""]

\* ------------------------------------------------------------------- state
VARIABLES
    existing,   \* ledger: the owners whose holding account for mint T exists
    body,       \* body[r]: req.body of request r
    frame,      \* frame[r]: the handler's locals and its position
    calls,      \* calls[r]: the calls request r has made on `connection`, in order
    responses   \* responses[r]: what request r has sent on `res`, in order

vars == <<existing, body, frame, calls, responses>>

\* The locals of a handler before it runs.
NewFrame ==
    [pc |-> "idle", walletPublicKey |-> "", transaction |-> NewTransaction, i |-> 1,
     decimals |-> 0, adjustedAmount |-> Value(0), decoded |-> FALSE, signature |-> ""]

\* One call on the ledger collaborator: the address it asks about, the
\* opaque token (signature, blockhash) it carries or returns, how it ended.
Call(op, arg, sig, result) == [op |-> op, arg |-> arg, sig |-> sig, result |-> result]

\* res.status(200).json({ success: true, transaction }) of /send.
SendSuccess(tx) ==
    [status |-> 200, success |-> TRUE, error |-> "", hasTransaction |-> TRUE,
     transaction |-> tx, signature |-> ""]

\* res.status(200).json({ success: true, signature }) of /submit.
SubmitSuccess(sig) ==
    [status |-> 200, success |-> TRUE, error |-> "", hasTransaction |-> FALSE,
     transaction |-> NewTransaction, signature |-> sig]

\* res.status(code).json({ error }).
ErrorResponse(code, msg) ==
    [status |-> code, success |-> FALSE, error |-> msg, hasTransaction |-> FALSE,
     transaction |-> NewTransaction, signature |-> ""]

Init ==
    /\ existing \in SUBSET Owners
    /\ body = [r \in Reqs |-> NoBody]
    /\ frame = [r \in Reqs |-> NewFrame]
    /\ calls = [r \in Reqs |-> <<>>]
    /\ responses = [r \in Reqs |-> <<>>]

\* ----------------------------------------------------------------- helpers
\* The handler sends `resp` and returns.
Finish(r, f, resp) ==
    /\ frame' = [frame EXCEPT ![r] = [f EXCEPT !.pc = "done"]]
    /\ responses' = [responses EXCEPT ![r] = Append(@, resp)]

\* The catch block of /send (lines 529-534).
SendCatch(r, f) == Finish(r, f, ErrorResponse(500, "Failed to create transaction."))

\* The catch block of /submit (lines 556-561).
SubmitCatch(r, f) == Finish(r, f, ErrorResponse(500, "Failed to submit transaction."))

\* The handler goes on to position `pc` with locals `f`.
Goto(r, f, pc) ==
    /\ frame' = [frame EXCEPT ![r] = [f EXCEPT !.pc = pc]]
    /\ UNCHANGED responses

\* The handler awaits a call on the collaborator.
Record(r, c) == calls' = [calls EXCEPT ![r] = Append(@, c)]

\* transaction.add(instruction).
Add(tx, instruction) == [tx EXCEPT !.instructions = Append(@, instruction)]

\* ------------------------------------------------------------------ /send
\* Express hands a request, its body one of `bodies`, to its handler.
ReceiveFrom(r, bodies) ==
    /\ frame[r].pc = "idle"
    /\ \E b \in bodies :
          /\ body' = [body EXCEPT ![r] = b]
          /\ Goto(r, frame[r], IF b.route = "send" THEN "send_start" ELSE "submit_start")
    /\ UNCHANGED <<existing, calls>>

Receive(r) == ReceiveFrom(r, SendBodies \cup SubmitBodies)

\* A transaction object that is shared with another request in flight.
SharedTransaction(r) ==
    LET others == {o \in Reqs \ {r} : frame[o].pc # "idle"}
    IN  IF others = {} THEN NewTransaction
        ELSE frame[CHOOSE o \in others : TRUE].transaction

\* Line 429: const transaction = new Transaction(), a local of the invocation.
FreshTransaction(r) == NewTransaction

\* Lines 422-429: the field check, the sender key, the new transaction.
SendFieldsMissing(b) ==
    b.publicKey = "" \/ ~b.hasRecipients \/ Len(b.recipients) = 0

SendStart(r) ==
    LET f == frame[r]
        b == body[r]
    IN  /\ f.pc = "send_start"
        /\ IF SendFieldsMissing(b)
           THEN Finish(r, f, ErrorResponse(400, "Missing required fields"))
           ELSE IF ~PublicKeyOk(b.publicKey)
           THEN SendCatch(r, f)
           ELSE Goto(r, [f EXCEPT !.walletPublicKey = b.publicKey,
                                  !.transaction = FreshTransaction(r)],
                     "await_blockhash")
        /\ UNCHANGED <<existing, body, calls>>

\* Lines 431-434: await connection.getRecentBlockhash(), then the anchor and the
\* fee payer are set.
\* The blockhashes the network may return.
Blockhashes == {"blockhash1", "blockhash2"}

GetRecentBlockhash(r) ==
    LET f == frame[r]
    IN  /\ f.pc = "await_blockhash"
        /\ \/ \E blockhash \in Blockhashes :
                 /\ Record(r, Call("getRecentBlockhash", NoAddress, blockhash, "ok"))
                 /\ Goto(r, [f EXCEPT !.transaction.recentBlockhash = blockhash,
                                       !.transaction.feePayer = f.walletPublicKey,
                                       !.i = 1],
                         "loop")
           \/ /\ Record(r, Call("getRecentBlockhash", NoAddress, "", "unavailable"))
              /\ SendCatch(r, f)
        /\ UNCHANGED <<existing, body>>

\* A loop that stops after its first iteration.
LoopDoneAfterFirst(recipients, i) == i > 1

\* Line 436: whether the for-of loop over recipients has run out.
LoopDone(recipients, i) == i > Len(recipients)

\* Line 445: lamports: amount * LAMPORTS_PER_SOL.
Lamports(amount) == Times(amount, LAMPORTS_PER_SOL)

\* Line 457: amount * Math.pow(10, decimals).
AdjustedAmount(amount, decimals) == Times(amount, Pow10(decimals))

\* A token branch that goes to the existence checks without the mint lookup.
TokenBranchSkipsMint == "await_recipient_info"

\* Lines 450-453: in the token branch the first awaited call of an iteration.
TokenBranchEntry == "await_mint"

\* Lines 436-450: one iteration of the loop up to its first await.  For SOL
\* the iteration has no await: the transfer is added and the loop goes on.
LoopIteration(r) ==
    LET f == frame[r]
        b == body[r]
        recipient == b.recipients[f.i]
    IN  /\ f.pc = "loop"
        /\ ~LoopDone(b.recipients, f.i)
        /\ IF ~PublicKeyOk(recipient.address)
           THEN SendCatch(r, f)
           ELSE IF b.token = "SOL"
           THEN \E built \in BuildOutcomes(Lamports(recipient.amount)) :
                   IF built = "ok"
                   THEN Goto(r, [f EXCEPT !.transaction =
                                     Add(@, SystemTransfer(f.walletPublicKey,
                                                           recipient.address,
                                                           Lamports(recipient.amount))),
                                          !.i = @ + 1],
                             "loop")
                   ELSE SendCatch(r, f)
           ELSE IF ~PublicKeyOk(b.token)
           THEN SendCatch(r, f)
           ELSE Goto(r, f, TokenBranchEntry)
        /\ UNCHANGED <<existing, body, calls>>

\* What getMint(connection, mint) can do: return the mint's data, or throw
\* because the account is no mint or the network failed.
GetMintResults(token) ==
    IF token \in DOMAIN MintDecimals THEN {"ok", "unavailable"} ELSE {"notFound", "unavailable"}

\* Lines 453-479: await getMint, the decimals, the scaled amount, the two
\* derived holding-account addresses.
GetMint(r) ==
    LET f == frame[r]
        b == body[r]
        recipient == b.recipients[f.i]
    IN  /\ f.pc = "await_mint"
        /\ \E result \in GetMintResults(b.token) :
              /\ Record(r, Call("getMint", Wallet(b.token), "", result))
              /\ IF result = "ok"
                 THEN Goto(r, [f EXCEPT !.decimals = MintDecimals[b.token],
                                        !.adjustedAmount =
                                            AdjustedAmount(recipient.amount,
                                                           MintDecimals[b.token])],
                           "await_recipient_info")
                 ELSE SendCatch(r, f)
        /\ UNCHANGED <<existing, body>>

\* connection.getAccountInfo(address): the account, or null.
AccountExists(ata) == ata.owner \in existing

\* Lines 481-493: await getAccountInfo(recipientTokenAddress); a creation
\* instruction is added when the account is missing.
GetRecipientAccountInfo(r) ==
    LET f == frame[r]
        b == body[r]
        recipient == b.recipients[f.i]
        recipientTokenAddress == getAssociatedTokenAddress(b.token, recipient.address)
    IN  /\ f.pc = "await_recipient_info"
        /\ \E result \in {"ok", "unavailable"} :
              /\ Record(r, Call("getAccountInfo", recipientTokenAddress, "", result))
              /\ IF result = "ok"
                 THEN Goto(r, IF AccountExists(recipientTokenAddress)
                              THEN f
                              ELSE [f EXCEPT !.transaction =
                                        Add(@, CreateAccount(f.walletPublicKey,
                                                             recipientTokenAddress,
                                                             recipient.address))],
                           "await_sender_info")
                 ELSE SendCatch(r, f)
        /\ UNCHANGED <<existing, body>>

\* Lines 495-516: await getAccountInfo(senderTokenAddress); a creation
\* instruction is added when the account is missing; then the transfer
\* instruction is added and the loop goes on.
GetSenderAccountInfo(r) ==
    LET f == frame[r]
        b == body[r]
        recipient == b.recipients[f.i]
        recipientTokenAddress == getAssociatedTokenAddress(b.token, recipient.address)
        senderTokenAddress == getAssociatedTokenAddress(b.token, f.walletPublicKey)
        checked == IF AccountExists(senderTokenAddress)
                   THEN f.transaction
                   ELSE Add(f.transaction,
                            CreateAccount(f.walletPublicKey, senderTokenAddress,
                                          f.walletPublicKey))
    IN  /\ f.pc = "await_sender_info"
        /\ \E result \in {"ok", "unavailable"} :
              /\ Record(r, Call("getAccountInfo", senderTokenAddress, "", result))
              /\ IF result = "ok"
                 THEN \E built \in BuildOutcomes(f.adjustedAmount) :
                         IF built = "ok"
                         THEN Goto(r, [f EXCEPT !.transaction =
                                           Add(checked,
                                               TokenTransfer(senderTokenAddress,
                                                             recipientTokenAddress,
                                                             f.walletPublicKey,
                                                             f.adjustedAmount)),
                                                !.i = @ + 1],
                                   "loop")
                         ELSE SendCatch(r, [f EXCEPT !.transaction = checked])
                 ELSE SendCatch(r, f)
        /\ UNCHANGED <<existing, body>>

\* Lines 520-528: after the loop the transaction is serialized (which may
\* throw, as for a transaction over the size limit) and sent back.
SerializeAndRespond(r) ==
    LET f == frame[r]
        b == body[r]
    IN  /\ f.pc = "loop"
        /\ LoopDone(b.recipients, f.i)
        /\ \E serialized \in {"ok", "throw"} :
              IF serialized = "ok"
              THEN Finish(r, f, SendSuccess(f.transaction))
              ELSE SendCatch(r, f)
        /\ UNCHANGED <<existing, body, calls>>

\* ---------------------------------------------------------------- /submit
\* Transaction.from(Buffer.from(signedTransaction, 'base64')) returns or throws.
DecodeOk(signedTransaction) == signedTransaction = "signedTx"

\* Lines 540-546: the field check and the decoding.
SubmitStart(r) ==
    LET f == frame[r]
        b == body[r]
    IN  /\ f.pc = "submit_start"
        /\ IF b.signedTransaction = ""
           THEN Finish(r, f, ErrorResponse(400, "Missing signedTransaction"))
           ELSE IF ~DecodeOk(b.signedTransaction)
           THEN SubmitCatch(r, f)
           ELSE Goto(r, [f EXCEPT !.decoded = TRUE], "await_send")
        /\ UNCHANGED <<existing, body, calls>>

\* The transaction ids the network may return for a broadcast.
Signatures == {"sig1", "sig2"}

\* A handler that answers as soon as the broadcast returns.
AfterBroadcastNoConfirm(r, f) ==
    /\ frame' = [frame EXCEPT ![r] = [f EXCEPT !.pc = "done"]]
    /\ responses' = [responses EXCEPT ![r] = Append(@, SubmitSuccess(f.signature))]

\* Line 549-550: after the broadcast returns, the confirmation is awaited.
AfterBroadcast(r, f) == Goto(r, f, "await_confirm")

\* Line 549: await connection.sendRawTransaction(transaction.serialize()).
SendRawTransaction(r) ==
    LET f == frame[r]
    IN  /\ f.pc = "await_send"
        /\ \/ \E sig \in Signatures :
                 /\ Record(r, Call("sendRawTransaction", NoAddress, sig, "ok"))
                 /\ AfterBroadcast(r, [f EXCEPT !.signature = sig])
           \/ /\ Record(r, Call("sendRawTransaction", NoAddress, "", "unavailable"))
              /\ SubmitCatch(r, f)
        /\ UNCHANGED <<existing, body>>

\* Lines 550-555: await connection.confirmTransaction(signature, 'confirmed'),
\* then the success response.
ConfirmTransaction(r) ==
    LET f == frame[r]
    IN  /\ f.pc = "await_confirm"
        /\ \E result \in {"ok", "unavailable"} :
              /\ Record(r, Call("confirmTransaction", NoAddress, f.signature, result))
              /\ IF result = "ok"
                 THEN Finish(r, f, SubmitSuccess(f.signature))
                 ELSE SubmitCatch(r, f)
        /\ UNCHANGED <<existing, body>>

\* ------------------------------------------------------------------- spec
\* One request is handled, from its arrival to its response.
Next ==
    \E r \in {1} :
        \/ Receive(r)
        \/ SendStart(r)
        \/ GetRecentBlockhash(r)
        \/ LoopIteration(r)
        \/ GetMint(r)
        \/ GetRecipientAccountInfo(r)
        \/ GetSenderAccountInfo(r)
        \/ SerializeAndRespond(r)
        \/ SubmitStart(r)
        \/ SendRawTransaction(r)
        \/ ConfirmTransaction(r)

Spec == Init /\ [][Next]_vars

\* ------------------------------------------------------ concurrent requests
\* Longest recipients array of the requests that are handled concurrently.
MaxConcurrentRecipients == 1

\* Bodies of the requests handled concurrently: /send from the sender S or A
\* in SOL or the token T, and /submit of a signed transaction.
ConcurrentBodies ==
    [route : {"send"}, publicKey : {"S", "A"}, token : {"SOL", "T"},
     hasRecipients : {TRUE},
     recipients : SeqsUpTo([address : {"A", "B"}, amount : {Num(1000)}],
                           MaxConcurrentRecipients) \ {<<>>},
     signedTransaction : {""}]
    \cup
    [route : {"submit"}, publicKey : {""}, token : {""}, hasRecipients : {FALSE},
     recipients : {<<>>}, signedTransaction : {"signedTx"}]

ReceiveConcurrent(r) == ReceiveFrom(r, ConcurrentBodies)

\* The requests are handled together: the event loop runs any handler that
\* is at an await whose call has returned.
NextConcurrent ==
    \E r \in Reqs :
        \/ ReceiveConcurrent(r)
        \/ SendStart(r)
        \/ GetRecentBlockhash(r)
        \/ LoopIteration(r)
        \/ GetMint(r)
        \/ GetRecipientAccountInfo(r)
        \/ GetSenderAccountInfo(r)
        \/ SerializeAndRespond(r)
        \/ SubmitStart(r)
        \/ SendRawTransaction(r)
        \/ ConfirmTransaction(r)

SpecConcurrent == Init /\ [][NextConcurrent]_vars

\* ----------------------------------------------------- reading the state
Done(r) == frame[r].pc = "done"
IsSend(r) == body[r].route = "send"
IsSubmit(r) == body[r].route = "submit"

\* The response of a finished request.
Response(r) == responses[r][1]

\* The request ended with a 2xx response.
Succeeded(r) == Done(r) /\ Len(responses[r]) = 1 /\ Response(r).status \in 200..299

\* The instructions of the transaction a request returned.
Returned(r) == Response(r).transaction.instructions

\* The sender and every recipient address decode, the list is not empty.
AddressesValid(b) ==
    /\ b.publicKey \in ValidKeys
    /\ b.hasRecipients /\ Len(b.recipients) >= 1
    /\ \A k \in 1..Len(b.recipients) : b.recipients[k].address \in ValidKeys

\* Some amount is absent, zero or negative.
SomeAmountNotPositive(b) ==
    \E k \in 1..Len(b.recipients) :
        ~b.recipients[k].amount.def \/ b.recipients[k].amount.milli <= 0

ValidRequest(b) == b.route = "send" /\ AddressesValid(b) /\ ~SomeAmountNotPositive(b)
ValidTokenRequest(b) == ValidRequest(b) /\ b.token \in DOMAIN MintDecimals
ValidNativeRequest(b) == ValidRequest(b) /\ b.token = "SOL"

\* The positions of the instructions of a list that satisfy P.
Positions(ins, P(_)) == {k \in 1..Len(ins) : P(ins[k])}

IsTokenTransfer(x) == x.type = "tokenTransfer"
IsCreate(x) == x.type = "create"

\* The positions that create the holding account `ata`.
Creations(ins, ata) == {k \in 1..Len(ins) : ins[k].type = "create" /\ ins[k].account = ata}

\* The positions that move tokens out of or into the holding account `ata`.
Uses(ins, ata) ==
    {k \in 1..Len(ins) : ins[k].type = "tokenTransfer" /\ (ins[k].from = ata \/ ins[k].to = ata)}

HoldingAccount(owner, mint) == [owner |-> owner, mint |-> mint]

RecipientOwners(b) == {b.recipients[k].address : k \in 1..Len(b.recipients)}

\* ------------------------------------------------------------------ claims

\* C1: a token request with n recipients that is answered with a transaction
\* gets exactly n token transfers, one creation for each distinct missing
\* recipient holding account, and one creation for the sender's holding
\* account iff it is missing: n + missing recipients + (1 if sender missing).
C1_InstructionCount ==
    \A r \in Reqs :
        (Succeeded(r) /\ ValidTokenRequest(body[r])) =>
            LET b == body[r]
                ins == Returned(r)
                missing == {o \in RecipientOwners(b) : o \notin existing}
                senderMissing == IF b.publicKey \in existing THEN 0 ELSE 1
            IN  /\ Cardinality(Positions(ins, IsTokenTransfer)) = Len(b.recipients)
                /\ \A o \in RecipientOwners(b) :
                      Cardinality(Creations(ins, HoldingAccount(o, b.token)))
                          = IF o \in missing THEN 1 ELSE 0
                /\ Cardinality(Creations(ins, HoldingAccount(b.publicKey, b.token)))
                      = senderMissing
                /\ Len(ins) = Len(b.recipients) + Cardinality(missing) + senderMissing

\* C2: in a returned token transaction every creation instruction comes before
\* every instruction that uses the created holding account, and the creation
\* of a recipient's holding account is the instruction right before that
\* recipient's token transfer.
C2_CreationPrecedesUse ==
    \A r \in Reqs :
        (Succeeded(r) /\ ValidTokenRequest(body[r])) =>
            LET b == body[r]
                ins == Returned(r)
            IN  \A k \in Positions(ins, IsCreate) :
                    /\ \A j \in Uses(ins, ins[k].account) : k < j
                    /\ ins[k].account.owner # b.publicKey =>
                          /\ k + 1 <= Len(ins)
                          /\ ins[k + 1].type = "tokenTransfer"
                          /\ ins[k + 1].to = ins[k].account

\* The sender address is malformed, or a recipient address is.
HasInvalidAddress(b) ==
    /\ b.route = "send"
    /\ \/ b.publicKey = "bad"
       \/ \E k \in 1..Len(b.recipients) : b.recipients[k].address \notin ValidKeys

\* C3: a request whose sender address or one of whose recipient addresses does
\* not decode ends with status 400 and with no instruction built.
C3_InvalidAddressRejected ==
    \A r \in Reqs :
        (Done(r) /\ HasInvalidAddress(body[r])) =>
            /\ Response(r).status = 400
            /\ frame[r].transaction.instructions = <<>>

\* C4: within a /send request the blockhash fetch comes after every mint
\* lookup and every holding-account existence check of the request.
C4_BlockhashFetchedLast ==
    \A r \in Reqs :
        IsSend(r) =>
            \A j, k \in 1..Len(calls[r]) :
                (/\ calls[r][j].op = "getRecentBlockhash"
                 /\ calls[r][k].op \in {"getMint", "getAccountInfo"}) => k < j

\* What input validation is to reject, and whether every call made returned.
InvalidInput(b) ==
    /\ b.route = "send"
    /\ \/ SendFieldsMissing(b)
       \/ b.publicKey \notin ValidKeys
       \/ \E k \in 1..Len(b.recipients) : b.recipients[k].address \notin ValidKeys
       \/ SomeAmountNotPositive(b)

NoCallFailed(r) == \A k \in 1..Len(calls[r]) : calls[r][k].result = "ok"

\* C5: a /send request with invalid input (no recipients, no or a malformed
\* sender, a malformed recipient address, an amount that is not positive)
\* that ends in an error has made no call on the collaborator.  Only runs
\* in which no call failed are looked at, so that the error is the input's.
C5_ValidationBeforeCalls ==
    \A r \in Reqs :
        (Done(r) /\ InvalidInput(body[r]) /\ ~Succeeded(r) /\ NoCallFailed(r)) =>
            Len(calls[r]) = 0

\* C6: a valid SOL request with n recipients that is answered with a
\* transaction gets exactly n instructions, the k-th a native transfer from
\* the sender to the k-th recipient of the integer round(amount * 10^9)
\* lamports (thousandths * 10^6); the fee payer is the sender; no mint lookup
\* and no holding-account check was made.
C6_NativeTransfers ==
    \A r \in Reqs :
        (Succeeded(r) /\ ValidNativeRequest(body[r])) =>
            LET b == body[r]
                tx == Response(r).transaction
            IN  /\ Len(tx.instructions) = Len(b.recipients)
                /\ \A k \in 1..Len(b.recipients) :
                      tx.instructions[k] =
                          [type |-> "transfer",
                           from |-> [owner |-> b.publicKey, mint |-> "-"],
                           to |-> [owner |-> b.recipients[k].address, mint |-> "-"],
                           account |-> NoAddress,
                           amount |-> [nan |-> FALSE, err |-> 0,
                                       val |-> b.recipients[k].amount.milli * 1000000]]
                /\ tx.feePayer = b.publicKey
                /\ \A k \in 1..Len(calls[r]) :
                      calls[r][k].op \notin {"getMint", "getAccountInfo"}

\* The mint lookup found no mint at the token address.
MintLookupFailed(r) ==
    \E k \in 1..Len(calls[r]) : calls[r][k].op = "getMint" /\ calls[r][k].result = "notFound"

C8_PositiveAmounts ==
    \A r \in Reqs :
        (Done(r) /\ IsSend(r)) =>
            /\ SomeAmountNotPositive(body[r]) =>
                  (~Succeeded(r) /\ ~Response(r).hasTransaction)
            /\ Succeeded(r) =>
                  \A k \in 1..Len(Returned(r)) :
                      Returned(r)[k].type # "create" =>
                          (~Returned(r)[k].amount.nan /\ Returned(r)[k].amount.val > 0)

Transfers(ins) == SelectSeq(ins, LAMBDA x : x.type # "create")

\* C10: a /send request sends at most one response, and exactly one when it
\* has ended: either 200 with a transaction that holds a transfer to every
\* recipient of the request, in order, with the fee payer and an anchor, or
\* an error status without a transaction.
C10_AllOrNothing ==
    \A r \in Reqs :
        IsSend(r) =>
            /\ Len(responses[r]) <= 1
            /\ Done(r) <=> Len(responses[r]) = 1
            /\ Done(r) =>
                  \/ /\ Response(r).status = 200
                     /\ Response(r).hasTransaction
                     /\ LET tx == Response(r).transaction
                            b == body[r]
                        IN  /\ Len(Transfers(tx.instructions)) = Len(b.recipients)
                            /\ \A k \in 1..Len(b.recipients) :
                                  Transfers(tx.instructions)[k].to.owner
                                      = b.recipients[k].address
                            /\ tx.feePayer = b.publicKey
                            /\ tx.recentBlockhash # ""
                  \/ /\ Response(r).status \in {400, 500}
                     /\ ~Response(r).hasTransaction
                     /\ Response(r).transaction = NewTransaction

\* A token request for two recipients was answered with a transaction.
C10_Witness ==
    \E r \in Reqs :
        /\ Succeeded(r) /\ IsSend(r)
        /\ body[r].token = "T"
        /\ Len(body[r].recipients) = 2
        /\ body[r].recipients[1].address # body[r].recipients[2].address

\* The calls of a request that check whether the holding account `ata` exists.
Resolutions(r, ata) ==
    {k \in 1..Len(calls[r]) : calls[r][k].op = "getAccountInfo" /\ calls[r][k].arg = ata}

\* C11: within a token /send request the holding account of no owner, sender
\* or recipient, is checked on the ledger more than once, and no holding
\* account gets more than one creation instruction.
C11_ResolvedOnce ==
    \A r \in Reqs :
        ValidTokenRequest(body[r]) =>
            \A o \in Owners :
                /\ Cardinality(Resolutions(r, HoldingAccount(o, body[r].token))) <= 1
                /\ Cardinality(Creations(frame[r].transaction.instructions,
                                         HoldingAccount(o, body[r].token))) <= 1

\* What the /send handler builds for the first k recipients of body b when it
\* runs from start to end with nothing else running and every call returns:
\* per recipient a SOL transfer, or the creation of each missing holding
\* account (the recipient's, then the sender's) and the token transfer.
RECURSIVE AloneInstructions(_, _)
AloneInstructions(b, k) ==
    IF k = 0 THEN <<>>
    ELSE LET rcp == b.recipients[k]
             from == [owner |-> b.publicKey, mint |-> b.token]
             to == [owner |-> rcp.address, mint |-> b.token]
         IN  IF b.token = "SOL"
             THEN Append(AloneInstructions(b, k - 1),
                         SystemTransfer(b.publicKey, rcp.address,
                                        Times(rcp.amount, LAMPORTS_PER_SOL)))
             ELSE AloneInstructions(b, k - 1)
                  \o (IF rcp.address \in existing THEN <<>>
                      ELSE <<CreateAccount(b.publicKey, to, rcp.address)>>)
                  \o (IF b.publicKey \in existing THEN <<>>
                      ELSE <<CreateAccount(b.publicKey, from, b.publicKey)>>)
                  \o <<TokenTransfer(from, to, b.publicKey,
                                     Times(rcp.amount, Pow10(MintDecimals[b.token])))>>

\* C12: whatever the interleaving of the requests at their awaits, the
\* transaction a /send request returns holds the instructions the request
\* builds when run alone, its own sender as fee payer and the blockhash that
\* its own getRecentBlockhash call returned; while it is built it holds
\* nothing of another request.
C12_Isolation ==
    \A r \in Reqs :
        IsSend(r) =>
            /\ Succeeded(r) =>
                  /\ calls[r][1].op = "getRecentBlockhash"
                  /\ Response(r).transaction =
                        [instructions |-> AloneInstructions(body[r], Len(body[r].recipients)),
                         feePayer |-> body[r].publicKey,
                         recentBlockhash |-> calls[r][1].sig]
            /\ \A k \in 1..Len(frame[r].transaction.instructions) :
                  frame[r].transaction.instructions[k].from.owner = body[r].publicKey
            /\ frame[r].transaction.feePayer \in {"", body[r].publicKey}

\* A token request of sender S was answered with a transaction while a token
\* request of sender A, given another blockhash, is at an await with an
\* instruction already in its transaction.
C12_Witness ==
    /\ Succeeded(1) /\ IsSend(1) /\ IsSend(2)
    /\ body[1].token = "T" /\ body[2].token = "T"
    /\ body[1].publicKey = "S" /\ body[2].publicKey = "A"
    /\ Len(Returned(1)) >= 2
    /\ frame[2].pc = "await_sender_info"
    /\ Len(frame[2].transaction.instructions) >= 1
    /\ frame[2].transaction.recentBlockhash # Response(1).transaction.recentBlockhash

====
